---------------------------- MODULE Spec2Model ----------------------------
(***************************************************************************)
(* Flow_data dashboard: the polling panels (PriceChange, KlineChart,       *)
(* OrderBook) and the Binance API client.                                  *)
(*                                                                         *)
(* A panel is a React function component: three useState cells (dataset,   *)
(* loading, error) and one useEffect whose dependencies are the panel's    *)
(* identity inputs.  The effect defines fetchData / generateMockData as    *)
(* closures over the props of the render that ran it, calls fetchData()    *)
(* once, arms setInterval(fetchData, ...) and returns a cleanup that       *)
(* clears that interval.  Timer callbacks and promise continuations run    *)
(* one at a time on the event loop, so every handler is one atomic action. *)
(* The setters a handler calls in a row are applied together: the renders  *)
(* React may do between them inside a promise continuation show the        *)
(* loading placeholder (loading is still set) and are not modelled.        *)
(* A pending client call cannot be cancelled: its continuation runs        *)
(* whatever happened to the effect that issued it.                         *)
(***************************************************************************)
EXTENDS Integers, Sequences, FiniteSets, TLC

VARIABLES
    panel,        \* which component this instance is
    phase,        \* "mounting" (first render committed, effect pending), "active", "unmounted"
    props,        \* the props of the latest render
    data,         \* stats / klineData / asks+bids+maxTotal: the stored dataset
    loading,      \* useState<boolean>(true)
    error,        \* useState<string | null>(null)
    timers,       \* the live browser intervals, each with the fetchData closure it calls
    intervalId,   \* the interval id captured by the pending effect cleanup
    nextTimerId,  \* the id the next setInterval returns
    inflight,     \* the pending promises of the client calls, each with its closure
    nextId,       \* number of fetchData calls so far (the next call's number)
    done,         \* history: the fetchData calls completed while mounted, in completion order
    last          \* history: the step that led to this state

VARIABLES
    cStage,       \* position of the client call: "idle", "sent", "checked", "parsed", "returned", "thrown"
    cReq,         \* the call: operation and symbol
    cResp,        \* what the network did with the request
    cOut,         \* the value returned or the error thrown to the caller
    cLogged,      \* number of console.error lines written so far
    cFirst,       \* history: the first call that returned, with its body and its value
    cCalls        \* number of calls that have ended

VARIABLES
    obProps,      \* OrderBook: the props the effect closed over (symbol, depth)
    obStage,      \* OrderBook: "called", "responded", "failed", "fetched", "mocked"
    obBody,       \* OrderBook: the depth body the upstream answered with
    asks,         \* useState<OrderData[]>([])
    bids,         \* useState<OrderData[]>([])
    maxTotal,     \* useState<number>(0)
    obLoading,    \* OrderBook: useState<boolean>(true)
    obError       \* OrderBook: useState<string | null>(null)

VARIABLES
    kProps,       \* KlineChart: the props the effect closed over (symbol, interval)
    kStage,       \* KlineChart: "idle", "called", "responded", "failed", "fetched", "mocked"
    kBody,        \* KlineChart: the klines body the upstream answered with
    klineData,    \* useState<KlineData[]>([])
    kLoading,     \* KlineChart: useState<boolean>(true)
    kError,       \* KlineChart: useState<string | null>(null)
    kTape,        \* the values Math.random() returns during a run of generateMockData, when fixed
    kRuns,        \* history: number of runs of generateMockData
    kFirst        \* history: the dataset of the first run of generateMockData

VARIABLES
    app,          \* App: the state and interval of each panel of the grid
    appSymbol,    \* App: useState('BTCUSDT'), the selected symbol
    appLast       \* history: the panel (or App) and the event of the last step

VARIABLES
    sPanel,       \* which self-contained panel this instance is
    sPhase,       \* "mounting", "active", "unmounted"
    sProps,       \* the props of the latest render
    sData,        \* volumeData / historyData / liquidationData: the stored dataset
    sLoading,     \* useState<boolean>(true)
    sError,       \* useState<string | null>(null)
    sTimer,       \* the closure of the live interval, if any
    sRuns,        \* number of runs of the panel's fetch function
    sCalls,       \* number of calls of the API client the panel has made
    sLast         \* history: the event of the last step

VARIABLES
    tPanel,       \* the panel whose generator runs
    tSymbol,      \* the symbol prop
    tStage,       \* position in the generator: "start", "declared", "resolved", "used"
    tBasePrice,   \* the local basePrice
    tRead         \* the value of basePrice read by const volatility = basePrice * ...

VARIABLES
    messages,     \* useState<Message[]>([greeting])
    input,        \* useState<string>('')
    chatLoading,  \* AskMeAnything: useState<boolean>(false)
    chatPending,  \* the pending setTimeout callbacks, each with the render it closed over
    chatSymbol,   \* the symbol prop of the latest render
    chatClock,    \* number of Date objects created so far
    chatLast      \* history: the event of the last step

VARIABLES
    gSymbol,      \* generateMockData: the symbol of the closure
    gInterval,    \* the interval of the closure
    gNow,         \* now
    gStage,       \* position in generateMockData
    gI,           \* the loop variable i
    gLength,      \* mockData.length
    gLast,        \* the bar pushed last, mockData[mockData.length - 1]
    gShown        \* the length of klineData after setKlineData(mockData)

panelVars == <<panel, phase, props, data, loading, error, timers, intervalId,
               nextTimerId, inflight, nextId, done, last>>
clientVars == <<cStage, cReq, cResp, cOut, cLogged, cFirst, cCalls>>
bookVars == <<obProps, obStage, obBody, asks, bids, maxTotal, obLoading, obError>>
klineVars == <<kProps, kStage, kBody, klineData, kLoading, kError, kTape, kRuns, kFirst>>
appVars == <<app, appSymbol, appLast>>
synthVars == <<sPanel, sPhase, sProps, sData, sLoading, sError, sTimer, sRuns, sCalls, sLast>>
tableVars == <<tPanel, tSymbol, tStage, tBasePrice, tRead>>
chatVars == <<messages, input, chatLoading, chatPending, chatSymbol, chatClock, chatLast>>
genVars == <<gSymbol, gInterval, gNow, gStage, gI, gLength, gLast, gShown>>
nonPanelVars == <<clientVars, bookVars, klineVars, appVars, synthVars, tableVars, chatVars, genVars>>
nonClientVars == <<panelVars, bookVars, klineVars, appVars, synthVars, tableVars, chatVars, genVars>>
nonBookVars == <<panelVars, clientVars, klineVars, appVars, synthVars, tableVars, chatVars, genVars>>
nonKlineVars == <<panelVars, clientVars, bookVars, appVars, synthVars, tableVars, chatVars, genVars>>
nonAppVars == <<panelVars, clientVars, bookVars, klineVars, synthVars, tableVars, chatVars, genVars>>
nonSynthVars == <<panelVars, clientVars, bookVars, klineVars, appVars, tableVars, chatVars, genVars>>
nonTableVars == <<panelVars, clientVars, bookVars, klineVars, appVars, synthVars, chatVars, genVars>>
nonChatVars == <<panelVars, clientVars, bookVars, klineVars, appVars, synthVars, tableVars, genVars>>
nonGenVars == <<panelVars, clientVars, bookVars, klineVars, appVars, synthVars, tableVars, chatVars>>
vars == <<panel, phase, props, data, loading, error, timers, intervalId,
          nextTimerId, inflight, nextId, done, last,
          cStage, cReq, cResp, cOut, cLogged, cFirst, cCalls,
          obProps, obStage, obBody, asks, bids, maxTotal, obLoading, obError,
          kProps, kStage, kBody, klineData, kLoading, kError, kTape, kRuns, kFirst,
          app, appSymbol, appLast,
          sPanel, sPhase, sProps, sData, sLoading, sError, sTimer, sRuns, sCalls, sLast,
          tPanel, tSymbol, tStage, tBasePrice, tRead,
          messages, input, chatLoading, chatPending, chatSymbol, chatClock, chatLast,
          gSymbol, gInterval, gNow, gStage, gI, gLength, gLast, gShown>>

---------------------------------------------------------------------------
(* Bounds *)

\* total number of fetchData calls of one panel instance
MaxFetches == 3

\* the largest number a wire string denotes
MaxNumber == 12

\* number of client calls that end before the last one starts
MaxCalls == 2

---------------------------------------------------------------------------
(* Panels: props, identity, render *)

Panels == {"PriceChange", "KlineChart", "OrderBook"}

Symbols == {"BTCUSDT", "ETHUSDT"}
Intervals == {"1h", "1m"}
Depths == {10, 20}
Heights == {450, 400}

\* the values each prop can take; a prop the panel does not take has one value
PropValues(p) ==
    [symbol : Symbols,
     height : IF p = "KlineChart" THEN Heights ELSE {0},
     interval : IF p = "KlineChart" THEN Intervals ELSE {"-"},
     depth : IF p = "OrderBook" THEN Depths ELSE {0},
     refreshInterval : CASE p = "PriceChange" -> {10000, 5000}
                         [] p = "OrderBook" -> {1000, 500}
                         [] OTHER -> {60000}]

\* the props App passes on first render
InitialProps(p) ==
    [symbol |-> "BTCUSDT",
     height |-> IF p = "KlineChart" THEN 450 ELSE 0,
     interval |-> IF p = "KlineChart" THEN "1h" ELSE "-",
     depth |-> IF p = "OrderBook" THEN 10 ELSE 0,
     refreshInterval |-> CASE p = "PriceChange" -> 10000
                           [] p = "OrderBook" -> 1000
                           [] OTHER -> 60000]

\* the dependency array of the panel's useEffect
Deps(p) ==
    CASE p = "PriceChange" -> {"symbol", "refreshInterval"}
      [] p = "KlineChart" -> {"symbol", "interval"}
      [] p = "OrderBook" -> {"symbol", "depth", "refreshInterval"}

\* the effect re-runs iff a dependency differs between two renders
DepsChanged(p, old, new) == \E d \in Deps(p) : old[d] # new[d]

NoError == "null"

ErrorMessage(p) ==
    CASE p = "PriceChange" -> "Failed to fetch price data"
      [] p = "KlineChart" -> "Failed to fetch kline data"
      [] p = "OrderBook" -> "Failed to fetch order book data"

NoProps == [symbol |-> "-", height |-> 0, interval |-> "-", depth |-> 0, refreshInterval |-> 0]
NoData == [src |-> "none", closure |-> NoProps, fid |-> -1]

\* what the component returns from render
Render(ph, l, e) ==
    CASE ph = "unmounted" -> "none"
      [] l -> "loading"
      [] e # NoError -> "error"
      [] OTHER -> "data"

View == Render(phase, loading, error)

---------------------------------------------------------------------------
(* The panel controller *)

\* variant: the update is applied whether or not the component is mounted
SetStateAlways(ph, d, l, e) == data' = d /\ loading' = l /\ error' = e

\* A useState setter called while the component is in phase ph.  React applies
\* the update to a mounted component and drops it for an unmounted one.
SetState(ph, d, l, e) ==
    IF ph # "unmounted"
    THEN data' = d /\ loading' = l /\ error' = e
    ELSE UNCHANGED <<data, loading, error>>

\* the record of a step, kept for the properties
Step(kind, fid, closure) ==
    [kind |-> kind, fid |-> fid, closure |-> closure,
     preView |-> View, hadData |-> data # NoData]

\* variant: fetchData sets loading and leaves the error of the last failure
fetchDataKeepError(ph, closure) ==
    /\ SetState(ph, data, TRUE, error)
    /\ inflight' = inflight \cup {[id |-> nextId, closure |-> closure]}
    /\ nextId' = nextId + 1

\* fetchData up to its await: setLoading(true); setError(null); the client call
\* is issued with the symbol (interval, depth) of the closure.
fetchData(ph, closure) ==
    /\ SetState(ph, data, TRUE, NoError)
    /\ inflight' = inflight \cup {[id |-> nextId, closure |-> closure]}
    /\ nextId' = nextId + 1

\* the dataset the try block stores from the client's answer to call f
realData(f) == [src |-> "real", closure |-> f.closure, fid |-> f.id]

\* the dataset generateMockData builds for the closure of call f
generateMockData(f) == [src |-> "mock", closure |-> f.closure, fid |-> f.id]

\* variant: a response is applied only when it answers the newest call
fetchDataResolvedIfNewest(f) ==
    IF f.id = nextId - 1
    THEN SetState(phase, realData(f), FALSE, error)
    ELSE UNCHANGED <<data, loading, error>>

\* fetchData after the await, the client call fulfilled:
\* setStats(...); setLoading(false)
fetchDataResolved(f) == SetState(phase, realData(f), FALSE, error)

\* variant: the catch block stores the fallback without setError
fetchDataRejectedNoError(f) == SetState(phase, generateMockData(f), FALSE, error)

\* fetchData's catch block: setError(msg); setLoading(false);
\* generateMockData() -> setStats(mock); setLoading(false)
fetchDataRejected(f) == SetState(phase, generateMockData(f), FALSE, ErrorMessage(panel))

\* variant: the effect arms the interval without the immediate fetchData()
EffectTimerOnly(ph, closure, ts) ==
    /\ timers' = ts \cup {[tid |-> nextTimerId, closure |-> closure]}
    /\ intervalId' = nextTimerId
    /\ nextTimerId' = nextTimerId + 1
    /\ UNCHANGED <<data, loading, error, inflight, nextId>>

\* the body of the effect: fetchData(); intervalId = setInterval(fetchData, ...)
\* ts are the intervals left live by the cleanup that ran before it
Effect(ph, closure, ts) ==
    /\ fetchData(ph, closure)
    /\ timers' = ts \cup {[tid |-> nextTimerId, closure |-> closure]}
    /\ intervalId' = nextTimerId
    /\ nextTimerId' = nextTimerId + 1

\* variant: the cleanup leaves the interval live
CleanupNothing(ts) == ts

\* the effect's cleanup: clearInterval(intervalId)
Cleanup(ts) == {t \in ts : t.tid # intervalId}

\* first commit: the effect runs with the initial props
Mount ==
    /\ phase = "mounting"
    /\ nextId < MaxFetches
    /\ phase' = "active"
    /\ Effect("active", props, timers)
    /\ last' = Step("mount", nextId, props)
    /\ UNCHANGED <<panel, props, done>>
    /\ UNCHANGED nonPanelVars

\* the parent re-renders the panel with new props; when a dependency changed
\* the previous effect is cleaned up and the effect runs again
SetProps(new) ==
    /\ phase = "active"
    /\ new # props
    /\ props' = new
    /\ IF DepsChanged(panel, props, new)
       THEN /\ nextId < MaxFetches
            /\ Effect(phase, new, Cleanup(timers))
            /\ last' = Step("identity", nextId, new)
       ELSE /\ last' = Step("render", -1, new)
            /\ UNCHANGED <<data, loading, error, timers, intervalId,
                           nextTimerId, inflight, nextId>>
    /\ UNCHANGED <<panel, phase, done>>
    /\ UNCHANGED nonPanelVars

\* variant: a timer fire is skipped while a call is still pending
TimerFireIfIdle(t) ==
    /\ t \in timers
    /\ nextId < MaxFetches
    /\ IF inflight = {}
       THEN fetchData(phase, t.closure)
       ELSE UNCHANGED <<data, loading, error, inflight, nextId>>
    /\ last' = Step("timer", nextId, t.closure)
    /\ UNCHANGED <<panel, phase, props, timers, intervalId, nextTimerId, done>>
    /\ UNCHANGED nonPanelVars

\* a live interval fires: the browser calls the fetchData closure it holds
TimerFire(t) ==
    /\ t \in timers
    /\ nextId < MaxFetches
    /\ fetchData(phase, t.closure)
    /\ last' = Step("timer", nextId, t.closure)
    /\ UNCHANGED <<panel, phase, props, timers, intervalId, nextTimerId, done>>
    /\ UNCHANGED nonPanelVars

\* the completion log: the calls that completed while the panel was mounted
Completed(f) ==
    IF phase # "unmounted"
    THEN Append(done, [fid |-> f.id, closure |-> f.closure])
    ELSE done

\* the client call of f fulfils
FetchResolve(f) ==
    /\ f \in inflight
    /\ inflight' = inflight \ {f}
    /\ fetchDataResolved(f)
    /\ done' = Completed(f)
    /\ last' = Step("resolved", f.id, f.closure)
    /\ UNCHANGED <<panel, phase, props, timers, intervalId, nextTimerId, nextId>>
    /\ UNCHANGED nonPanelVars

\* variant: the catch block calls fetchData() again
FetchRejectRetry(f) ==
    /\ f \in inflight
    /\ nextId < MaxFetches
    /\ inflight' = (inflight \ {f}) \cup {[id |-> nextId, closure |-> f.closure]}
    /\ nextId' = nextId + 1
    /\ fetchDataRejected(f)
    /\ done' = Completed(f)
    /\ last' = Step("rejected", f.id, f.closure)
    /\ UNCHANGED <<panel, phase, props, timers, intervalId, nextTimerId>>
    /\ UNCHANGED nonPanelVars

\* the client call of f rejects (transport, status or payload failure alike)
FetchReject(f) ==
    /\ f \in inflight
    /\ inflight' = inflight \ {f}
    /\ fetchDataRejected(f)
    /\ done' = Completed(f)
    /\ last' = Step("rejected", f.id, f.closure)
    /\ UNCHANGED <<panel, phase, props, timers, intervalId, nextTimerId, nextId>>
    /\ UNCHANGED nonPanelVars

\* the panel is removed: React runs the effect's cleanup
Unmount ==
    /\ phase = "active"
    /\ phase' = "unmounted"
    /\ timers' = Cleanup(timers)
    /\ last' = Step("unmount", -1, props)
    /\ UNCHANGED <<panel, props, data, loading, error, intervalId, nextTimerId,
                   inflight, nextId, done>>
    /\ UNCHANGED nonPanelVars

\* the client before a call
NoRequest == [op |-> "-", symbol |-> "-"]
NoBody == [kind |-> "-", num |-> "-", time |-> -1]
NoResponse == [net |-> "-", status |-> 0, statusText |-> "-", body |-> NoBody]
NoValue == [shape |-> "-", num |-> -1, time |-> <<"-", -1>>]
NoOutcome == [kind |-> "none", name |-> "-", message |-> <<>>, value |-> NoValue]
NoFirst == [op |-> "-", body |-> NoBody, out |-> NoOutcome]
ClientIdle ==
    /\ cStage = "idle"
    /\ cReq = NoRequest
    /\ cResp = NoResponse
    /\ cOut = NoOutcome
    /\ cLogged = 0
    /\ cFirst = NoFirst
    /\ cCalls = 0

\* the component before its first commit: useState initial values
PanelStart(p) ==
    /\ panel = p
    /\ phase = "mounting"
    /\ props = InitialProps(p)
    /\ data = NoData
    /\ loading = TRUE
    /\ error = NoError
    /\ timers = {}
    /\ intervalId = -1
    /\ nextTimerId = 1
    /\ inflight = {}
    /\ nextId = 0
    /\ done = <<>>
    /\ last = [kind |-> "init", fid |-> -1, closure |-> NoProps,
               preView |-> "loading", hadData |-> FALSE]

\* the order book pipeline before it is looked at
NoBook == [bids |-> <<>>, asks |-> <<>>]
BookIdle ==
    /\ obProps = [symbol |-> "-", depth |-> 0]
    /\ obStage = "idle"
    /\ obBody = NoBook
    /\ asks = <<>>
    /\ bids = <<>>
    /\ maxTotal = 0
    /\ obLoading = TRUE
    /\ obError = NoError

\* the candle pipeline before it is looked at
NoTape == <<>>
KlineIdle ==
    /\ kProps = [symbol |-> "-", interval |-> "-"]
    /\ kStage = "idle"
    /\ kBody = <<>>
    /\ klineData = <<>>
    /\ kLoading = TRUE
    /\ kError = NoError
    /\ kTape = NoTape
    /\ kRuns = 0
    /\ kFirst = <<>>

\* the panel grid after App's first render: useState initial values in every
\* panel, no effect has run
NoTimer == [symbol |-> "-", period |-> 0]
AppIdle ==
    /\ app = [p \in Panels |->
                 [data |-> "none", loading |-> TRUE, error |-> NoError,
                  pending |-> 0, timer |-> NoTimer]]
    /\ appSymbol = "BTCUSDT"
    /\ appLast = [panel |-> "-", kind |-> "init"]

\* the panels that build their dataset themselves, before they are looked at
NoSynthData == [src |-> "none", closure |-> NoProps, run |-> -1, draw |-> -1]
SynthIdle ==
    /\ sPanel = "-"
    /\ sPhase = "mounting"
    /\ sProps = NoProps
    /\ sData = NoSynthData
    /\ sLoading = TRUE
    /\ sError = NoError
    /\ sTimer = NoProps
    /\ sRuns = 0
    /\ sCalls = 0
    /\ sLast = "init"

\* the base price lookup before it is looked at
TableIdle ==
    /\ tPanel = "-"
    /\ tSymbol = "-"
    /\ tStage = "start"
    /\ tBasePrice = 0
    /\ tRead = 0

\* the chat widget after its first render
Greeting(symbol) ==
    [id |-> 1, text |-> [template |-> "greeting", symbol |-> symbol, draw |-> -1],
     isUser |-> FALSE, timestamp |-> 0]
ChatIdle ==
    /\ messages = <<Greeting("BTCUSDT")>>
    /\ input = <<>>
    /\ chatLoading = FALSE
    /\ chatPending = {}
    /\ chatSymbol = "BTCUSDT"
    /\ chatClock = 1
    /\ chatLast = "init"

\* no bar pushed yet
NoBar == [time |-> <<>>, open |-> -1, high |-> -1, low |-> -1, close |-> -1,
          volume |-> -1, isRising |-> FALSE]

\* generateMockData not entered
GenIdle ==
    /\ gSymbol = "BTCUSDT"
    /\ gInterval = "1m"
    /\ gNow = 0
    /\ gStage = "idle"
    /\ gI = 0
    /\ gLength = 0
    /\ gLast = NoBar
    /\ gShown = -1

Init ==
    /\ \E p \in Panels : PanelStart(p)
    /\ ClientIdle
    /\ BookIdle
    /\ KlineIdle
    /\ AppIdle
    /\ SynthIdle
    /\ TableIdle
    /\ ChatIdle
    /\ GenIdle

Next ==
    \/ Mount
    \/ \E new \in PropValues(panel) : SetProps(new)
    \/ \E t \in timers : TimerFire(t)
    \/ \E f \in inflight : FetchResolve(f)
    \/ \E f \in inflight : FetchReject(f)
    \/ Unmount

Spec == Init /\ [][Next]_vars

---------------------------------------------------------------------------
(* Properties of the panel controller *)

\* the call a completion or timer step was about
LastCall == [id |-> last.fid, closure |-> last.closure]

\* the identity of closure c is not the identity of the current props
Stale(c) == DepsChanged(panel, c, props)

\* C1: a fetch issued for symbol A that completes (fulfilled, or rejected and
\* followed by generateMockData) after the identity changed to B never writes
\* its result into the panel's state.
C1_StaleResultNeverApplied ==
    (last.kind \in {"resolved", "rejected"} /\ Stale(last.closure))
        => data.fid # last.fid

C3_NoFetchAfterUnmount ==
    /\ [](phase = "unmounted" => timers = {})
    /\ [][phase = "unmounted" => (nextId' = nextId /\ inflight' \subseteq inflight)]_vars

C3_Witness ==
    /\ phase = "unmounted"
    /\ last.kind = "unmount"
    /\ intervalId # -1
    /\ timers = {}
    /\ nextId < MaxFetches

\* C4: a fetch that fails in a panel that already holds data stores the
\* fallback dataset and the panel renders it, not the error indicator.
C4_FailureWithDataRendersFallback ==
    (last.kind = "rejected" /\ last.hadData /\ phase = "active")
        => (View = "data" /\ data.src = "mock")

\* C5: when a fetch fails and no dataset was stored before, the panel renders
\* the error indicator.
C5_FirstFailureRendersError ==
    (last.kind = "rejected" /\ ~last.hadData /\ phase = "active")
        => (View = "error" /\ error = ErrorMessage(panel))

C5_Witness ==
    /\ last.kind = "rejected"
    /\ last.fid = 0
    /\ ~last.hadData
    /\ phase = "active"
    /\ View = "error"

\* C6: a timer fire in a panel that is rendering data leaves the data
\* rendered; the panel does not show the loading placeholder.
C6_NoFlickerOnRefresh ==
    (last.kind = "timer" /\ last.preView = "data" /\ phase = "active")
        => View = "data"

\* C7: the first activation and every change of an identity input set
\* loading, clear the error and issue exactly one fetch, for the new identity,
\* in the same step.
C7_IdentityChangeFetchesAtOnce ==
    [][(phase' = "active" /\ (phase = "mounting" \/ DepsChanged(panel, props, props')))
          => /\ loading'
             /\ error' = NoError
             /\ nextId' = nextId + 1
             /\ inflight' = inflight \cup {[id |-> nextId, closure |-> props']}]_vars

C7_Witness ==
    /\ last.kind = "identity"
    /\ last.preView = "data"
    /\ View = "loading"
    /\ [id |-> last.fid, closure |-> props] \in inflight

\* C8 as stated: a panel never has two fetches of one identity in flight.
C8_AtMostOneInFlightPerIdentity ==
    \A f \in inflight : \A g \in inflight :
        ~DepsChanged(panel, f.closure, g.closure) => f = g

\* C8 amended: every fire of the interval timer starts one fetch for the
\* identity the timer was armed for, whether or not earlier fetches of that
\* identity are still in flight.
C8_TimerFetchesRegardlessOfInFlight ==
    last.kind = "timer"
        => /\ LastCall \in inflight
           /\ nextId = last.fid + 1
           /\ \E t \in timers : t.closure = last.closure

C8_Witness ==
    /\ last.kind = "timer"
    /\ \E g \in inflight : g.id < last.fid /\ g.closure = last.closure
    /\ LastCall \in inflight

\* C9: results are applied in completion order: the stored dataset is the one
\* produced by the call that completed last (the payload when it fulfilled,
\* the fallback batch when it rejected); in particular, when every completed
\* call is of the current identity, it is the last completed call of that
\* identity.
C9_AppliedInCompletionOrder ==
    /\ done # <<>> =>
          /\ data.fid = done[Len(done)].fid
          /\ data.closure = done[Len(done)].closure
          /\ (\A i \in 1..Len(done) : ~Stale(done[i].closure)) => ~Stale(data.closure)
    /\ (phase = "active" /\ last.kind = "resolved") => data = realData(LastCall)
    /\ (phase = "active" /\ last.kind = "rejected") => data = generateMockData(LastCall)

C9_Witness ==
    /\ Len(done) >= 2
    /\ done[Len(done)].fid < done[Len(done) - 1].fid
    /\ done[Len(done)].closure = done[Len(done) - 1].closure
    /\ data.fid = done[Len(done)].fid
    /\ phase = "active"

---------------------------------------------------------------------------
(* The Binance API client: one call of one of the six fetch functions *)

Ops == {"fetchKlineData", "fetchOrderBook", "fetch24hTickerPriceChange",
        "fetchRecentTrades", "fetchFundingRate", "fetchLiquidationOrders"}

FuturesOps == {"fetchFundingRate", "fetchLiquidationOrders"}

BaseUrl(op) ==
    IF op \in FuturesOps THEN "https://fapi.binance.com" ELSE "https://api.binance.com"

\* the path of the URL the operation requests
Path(op) ==
    CASE op = "fetchKlineData" -> "/api/v3/klines"
      [] op = "fetchOrderBook" -> "/api/v3/depth"
      [] op = "fetch24hTickerPriceChange" -> "/api/v3/ticker/24hr"
      [] op = "fetchRecentTrades" -> "/api/v3/trades"
      [] op = "fetchFundingRate" -> "/fapi/v1/fundingRate"
      [] op = "fetchLiquidationOrders" -> "/fapi/v1/allForceOrders"

\* the text the operation puts in front of response.statusText
Prefix(op) ==
    CASE op = "fetchKlineData" -> "Error fetching kline data: "
      [] op = "fetchOrderBook" -> "Error fetching order book: "
      [] op = "fetch24hTickerPriceChange" -> "Error fetching 24h ticker: "
      [] op = "fetchRecentTrades" -> "Error fetching recent trades: "
      [] op = "fetchFundingRate" -> "Error fetching funding rate: "
      [] op = "fetchLiquidationOrders" -> "Error fetching liquidation orders: "

Statuses == {200, 404, 429, 500}

\* response.ok
Ok(status) == status >= 200 /\ status <= 299

ReasonPhrase(status) ==
    CASE status = 200 -> "OK"
      [] status = 404 -> "Not Found"
      [] status = 429 -> "Too Many Requests"
      [] status = 500 -> "Internal Server Error"

\* response.statusText: the reason phrase of an HTTP/1.1 response, empty for HTTP/2
StatusTexts(status) == {ReasonPhrase(status), ""}

\* the decimal strings the upstream sends in a numeric member; "abc" stands
\* for any text that is not a number
WireNums == {"7", "12", "abc"}

\* the epoch-millisecond members; MissingTime stands for an absent member
MissingTime == -1
WireTimes == {0, 60000, MissingTime}

\* the response body: the documented payload (here: one numeric member and
\* one time member, the two kinds of member the mappings convert), text that
\* is not JSON, or JSON without the structure the mapping walks (such as
\* {"code": ..., "msg": ...})
Bodies ==
    [kind : {"payload"}, num : WireNums, time : WireTimes]
        \cup [kind : {"notJSON", "otherJSON"}, num : {"-"}, time : {MissingTime}]

\* parseFloat's answer for text that is not a number
NaN == -1

\* parseFloat on a decimal string (the model's numbers are 0..MaxNumber)
parseFloat(s) ==
    IF \E n \in 0..MaxNumber : ToString(n) = s
    THEN CHOOSE n \in 0..MaxNumber : ToString(n) = s
    ELSE NaN

\* new Date(ms).toISOString()
toISOString(ms) == <<"ISO-8601", ms>>

\* the operations whose mapping converts a time member
TimedOps == Ops \ {"fetchOrderBook"}


\* a JavaScript error object: its class name and its message, in parts
Thrown(name, message) ==
    [kind |-> "throw", name |-> name, message |-> message, value |-> NoValue]

\* variant: the mapping reads a module-level counter that earlier calls advance
MappedWithSharedState(op, body) ==
    [kind |-> "value", name |-> "-", message |-> <<>>,
     value |-> [shape |-> op,
                num |-> parseFloat(body.num) + cLogged,
                time |-> IF op \in TimedOps THEN toISOString(body.time)
                         ELSE toISOString(MissingTime)]]

\* the typed record the mapping of op builds from the payload: every numeric
\* member through parseFloat, every time member through toISOString
Mapped(op, body) ==
    [kind |-> "value", name |-> "-", message |-> <<>>,
     value |-> [shape |-> op,
                num |-> parseFloat(body.num),
                time |-> IF op \in TimedOps THEN toISOString(body.time)
                         ELSE toISOString(MissingTime)]]

\* what the mapping throws on JSON without the expected structure: the array
\* operations call data.map, fetchOrderBook data.bids.map (TypeError); the
\* ticker reaches new Date(undefined).toISOString() (RangeError)
MappingError(op) ==
    IF op = "fetch24hTickerPriceChange"
    THEN Thrown("RangeError", <<"Invalid time value">>)
    ELSE Thrown("TypeError", <<"Cannot read properties of undefined">>)

\* the catch block of every operation: console.error(...); throw error
Catch(err) ==
    /\ cStage' = "thrown"
    /\ cOut' = err
    /\ cLogged' = cLogged + 1

\* await fetch(url) is issued
Call(op, sym) ==
    /\ cStage = "idle"
    /\ cStage' = "sent"
    /\ cReq' = [op |-> op, symbol |-> sym]
    /\ UNCHANGED <<cResp, cOut, cLogged>>
    /\ UNCHANGED <<cFirst, cCalls>>
    /\ UNCHANGED nonClientVars

\* fetch() rejects: the network is unreachable
NetworkFail ==
    /\ cStage = "sent"
    /\ cResp' = [net |-> "failed", status |-> 0, statusText |-> "-", body |-> NoBody]
    /\ Catch(Thrown("TypeError", <<"Failed to fetch">>))
    /\ UNCHANGED cReq
    /\ UNCHANGED <<cFirst, cCalls>>
    /\ UNCHANGED nonClientVars

\* fetch() fulfils with a response
Respond(status, text, body) ==
    /\ cStage = "sent"
    /\ cStage' = "responded"
    /\ cResp' = [net |-> "response", status |-> status, statusText |-> text, body |-> body]
    /\ UNCHANGED <<cReq, cOut, cLogged>>
    /\ UNCHANGED <<cFirst, cCalls>>
    /\ UNCHANGED nonClientVars

\* if (!response.ok) throw new Error(`Error fetching ...: ${response.statusText}`)
CheckOk ==
    /\ cStage = "responded"
    /\ IF Ok(cResp.status)
       THEN cStage' = "ok" /\ UNCHANGED <<cOut, cLogged>>
       ELSE Catch(Thrown("Error", <<Prefix(cReq.op), cResp.statusText>>))
    /\ UNCHANGED <<cReq, cResp>>
    /\ UNCHANGED <<cFirst, cCalls>>
    /\ UNCHANGED nonClientVars

\* const data = await response.json()
ParseJson ==
    /\ cStage = "ok"
    /\ IF cResp.body.kind = "notJSON"
       THEN Catch(Thrown("SyntaxError", <<"Unexpected token in JSON">>))
       ELSE cStage' = "parsed" /\ UNCHANGED <<cOut, cLogged>>
    /\ UNCHANGED <<cReq, cResp>>
    /\ UNCHANGED <<cFirst, cCalls>>
    /\ UNCHANGED nonClientVars

\* return data.map(...) / return {...}: a member that is not a number maps
\* to NaN; an absent time member makes toISOString throw
MapPayload ==
    /\ cStage = "parsed"
    /\ IF cResp.body.kind = "otherJSON"
       THEN Catch(MappingError(cReq.op))
       ELSE IF cReq.op \in TimedOps /\ cResp.body.time = MissingTime
       THEN Catch(Thrown("RangeError", <<"Invalid time value">>))
       ELSE cStage' = "returned" /\ cOut' = Mapped(cReq.op, cResp.body) /\ UNCHANGED cLogged
    /\ UNCHANGED <<cReq, cResp>>
    /\ UNCHANGED <<cFirst, cCalls>>
    /\ UNCHANGED nonClientVars

ClientInit == PanelStart("PriceChange") /\ ClientIdle /\ BookIdle /\ KlineIdle /\ AppIdle /\ SynthIdle /\ TableIdle /\ ChatIdle /\ GenIdle

ClientNext ==
    \/ \E op \in Ops : \E sym \in Symbols : Call(op, sym)
    \/ NetworkFail
    \/ \E st \in Statuses : \E text \in StatusTexts(st) : \E body \in Bodies :
          Respond(st, text, body)
    \/ CheckOk
    \/ ParseJson
    \/ MapPayload

SpecClient == ClientInit /\ [][ClientNext]_vars

\* the caller has the outcome and the module is called again: the locals of
\* the call are gone, what console.error wrote stays
NextCall ==
    /\ cStage \in {"returned", "thrown"}
    /\ cCalls < MaxCalls
    /\ cCalls' = cCalls + 1
    /\ cFirst' = IF cFirst = NoFirst /\ cStage = "returned"
                 THEN [op |-> cReq.op, body |-> cResp.body, out |-> cOut]
                 ELSE cFirst
    /\ cStage' = "idle"
    /\ cReq' = NoRequest
    /\ cResp' = NoResponse
    /\ cOut' = NoOutcome
    /\ UNCHANGED cLogged
    /\ UNCHANGED nonClientVars

ClientCallsNext ==
    \/ ClientNext
    \/ NextCall

\* a sequence of client calls
SpecClientCalls == ClientInit /\ [][ClientCallsNext]_vars

---------------------------------------------------------------------------
(* Properties of the client *)

\* the parts of an error's message
MessageParts(err) == {err.message[i] : i \in DOMAIN err.message}

\* the names of the errors thrown on a transport failure or an unparseable payload
OtherFailureNames == {"TypeError", "SyntaxError", "RangeError"}

\* C10: a non-success HTTP status makes the call throw an error that carries
\* the status code and the endpoint and differs in kind from the errors of a
\* transport failure and of an unparseable payload.
C10_NonOkStatusThrowsUpstreamError ==
    (cStage = "thrown" /\ cResp.net = "response" /\ ~Ok(cResp.status))
        => /\ cOut.kind = "throw"
           /\ cOut.name \notin OtherFailureNames
           /\ ToString(cResp.status) \in MessageParts(cOut)
           /\ Path(cReq.op) \in MessageParts(cOut)

\* the body is the documented payload and every member converts
WellFormed(op, body) ==
    /\ body.kind = "payload"
    /\ parseFloat(body.num) # NaN
    /\ op \in TimedOps => body.time # MissingTime

\* C11: the client never recovers: a network failure, a non-success status
\* or a malformed body always ends in the call throwing, so a call returns
\* only for a success response with a well-formed body, and what it returns
\* is the mapping of that body.
C11_EveryFailureThrows ==
    cStage = "returned"
        => /\ cResp.net = "response"
           /\ Ok(cResp.status)
           /\ WellFormed(cReq.op, cResp.body)
           /\ cOut = Mapped(cReq.op, cResp.body)

---------------------------------------------------------------------------
(* OrderBook: from the depth body to the stored snapshot.  Stored numbers  *)
(* are in tenths, so that Math.random() * 2 + 0.1 is a whole number.       *)

\* the depth prop (App passes 10)
OBDepths == {1, 2}

\* one [price, quantity] pair of the depth body, as the strings on the wire
WireLevels == {<<"12", "7">>, <<"7", "12">>, <<"7", "abc">>}

\* the level arrays of one side the upstream answers a request of limit with
WireSides(limit) == UNION {[1..n -> WireLevels] : n \in 0..limit}

\* a JavaScript number, in tenths
Tenths(x) == IF x = NaN THEN NaN ELSE 10 * x

\* a + b, a < b and Math.max(a, b) of JavaScript numbers
plus(a, b) == IF a = NaN \/ b = NaN THEN NaN ELSE a + b
lessThan(a, b) == a # NaN /\ b # NaN /\ a < b
MathMax(a, b) == IF a = NaN \/ b = NaN THEN NaN ELSE IF a >= b THEN a ELSE b

\* fetchOrderBook: item => ({ price: parseFloat(item[0]), amount: parseFloat(item[1]) })
fetchOrderBook(body) ==
    [bids |-> [i \in 1..Len(body.bids) |->
                  [price |-> Tenths(parseFloat(body.bids[i][1])),
                   amount |-> Tenths(parseFloat(body.bids[i][2]))]],
     asks |-> [i \in 1..Len(body.asks) |->
                  [price |-> Tenths(parseFloat(body.asks[i][1])),
                   amount |-> Tenths(parseFloat(body.asks[i][2]))]]]

\* variant: the whole side is kept
sliceNothing(s, n) == s

\* Array.prototype.slice(0, n)
slice(s, n) == SubSeq(s, 1, IF n < Len(s) THEN n ELSE Len(s))

\* levels.map(l => { total += l.amount; return { price, amount, total } }),
\* acc being the value of the accumulator before the first level
RECURSIVE withTotals(_, _)
withTotals(levels, acc) ==
    IF levels = <<>> THEN <<>>
    ELSE LET t == plus(acc, Head(levels).amount)
         IN <<[price |-> Head(levels).price, amount |-> Head(levels).amount,
               total |-> t]>> \o withTotals(Tail(levels), t)

\* the accumulator (askTotal, bidTotal) after the loop
totalOf(side) == IF side = <<>> THEN 0 ELSE side[Len(side)].total

basePrice(symbol) ==
    CASE symbol = "BTCUSDT" -> 50000
      [] symbol = "ETHUSDT" -> 3000
      [] symbol = "BNBUSDT" -> 500
      [] OTHER -> 100

\* const volatility = basePrice * 0.001, in tenths
bookVolatility(symbol) == Tenths(basePrice(symbol)) \div 1000

\* Math.random(), in tenths
RandomTenths == {0, 5, 9}

\* the mock levels of one side before the totals: sign is 1 for asks and -1
\* for bids, r the draws of the side in loop order
mockLevels(symbol, depth, sign, r) ==
    [i \in 1..depth |->
        [price |-> Tenths(basePrice(symbol)) + sign * i * bookVolatility(symbol),
         amount |-> r[i] * 2 + 1]]

\* the effect calls fetchData(): setLoading(true), setError(null), and the
\* client requests depth * 2 levels
BookFetchData ==
    /\ obStage = "idle"
    /\ obStage' = "called"
    /\ obLoading' = TRUE
    /\ obError' = NoError
    /\ UNCHANGED <<obProps, obBody, asks, bids, maxTotal>>
    /\ UNCHANGED nonBookVars

\* the upstream answers 200 with a depth body of at most limit levels a side
BookRespond ==
    /\ obStage = "called"
    /\ obStage' = "responded"
    /\ \E b \in WireSides(obProps.depth * 2) :
          \E a \in WireSides(obProps.depth * 2) :
             obBody' = [bids |-> b, asks |-> a]
    /\ UNCHANGED <<obProps, asks, bids, maxTotal, obLoading, obError>>
    /\ UNCHANGED nonBookVars

\* the client call throws (network, status, parse)
BookFail ==
    /\ obStage = "called"
    /\ obStage' = "failed"
    /\ UNCHANGED <<obProps, obBody, asks, bids, maxTotal, obLoading, obError>>
    /\ UNCHANGED nonBookVars

\* fetchData after the await: the client maps the body, the panel slices
\* each side to depth and accumulates the totals
BookFetched ==
    /\ obStage = "responded"
    /\ LET book == fetchOrderBook(obBody)
           processedAsks == withTotals(slice(book.asks, obProps.depth), 0)
           processedBids == withTotals(slice(book.bids, obProps.depth), 0)
       IN /\ asks' = processedAsks
          /\ bids' = processedBids
          /\ maxTotal' = MathMax(totalOf(processedAsks), totalOf(processedBids))
    /\ obLoading' = FALSE
    /\ obStage' = "fetched"
    /\ UNCHANGED <<obProps, obBody, obError>>
    /\ UNCHANGED nonBookVars

\* fetchData's catch: setError, setLoading(false), generateMockData() with
\* the draws r of Math.random(), asks first
BookMocked ==
    /\ obStage = "failed"
    /\ \E r \in [1..(2 * obProps.depth) -> RandomTenths] :
       LET d == obProps.depth
           mockAsks == withTotals(mockLevels(obProps.symbol, d, 1,
                                             [i \in 1..d |-> r[i]]), 0)
           mockBids == withTotals(mockLevels(obProps.symbol, d, -1,
                                             [i \in 1..d |-> r[d + i]]), 0)
       IN /\ asks' = mockAsks
          /\ bids' = mockBids
          /\ maxTotal' = MathMax(totalOf(mockAsks), totalOf(mockBids))
    /\ obError' = ErrorMessage("OrderBook")
    /\ obLoading' = FALSE
    /\ obStage' = "mocked"
    /\ UNCHANGED <<obProps, obBody>>
    /\ UNCHANGED nonBookVars

\* an OrderBook with some symbol and depth, rendered and not yet committed
BookInit ==
    /\ PanelStart("OrderBook")
    /\ ClientIdle
    /\ KlineIdle
    /\ AppIdle
    /\ SynthIdle
    /\ TableIdle
    /\ ChatIdle
    /\ GenIdle
    /\ obProps \in [symbol : Symbols, depth : OBDepths]
    /\ obStage = "idle"
    /\ obBody = NoBook
    /\ asks = <<>>
    /\ bids = <<>>
    /\ maxTotal = 0
    /\ obLoading = TRUE
    /\ obError = NoError

BookNext ==
    \/ BookFetchData
    \/ BookRespond
    \/ BookFail
    \/ BookFetched
    \/ BookMocked

SpecBook == BookInit /\ [][BookNext]_vars

---------------------------------------------------------------------------
(* Polling schedule *)

\* C19: a completion, failed or not, issues no fetch and leaves the armed
\* intervals as they are; a firing interval issues exactly one fetch whatever
\* the earlier fetches did.
C19_NoRetryNoBackoff ==
    [][/\ last'.kind \in {"resolved", "rejected"}
          => /\ nextId' = nextId
             /\ timers' = timers
             /\ inflight' \subseteq inflight
       /\ last'.kind = "timer"
          => /\ nextId' = nextId + 1
             /\ timers' = timers]_vars

C19_Witness ==
    /\ last.kind = "rejected"
    /\ phase = "active"
    /\ error = ErrorMessage(panel)
    /\ nextId = 1
    /\ inflight = {}
    /\ Cardinality(timers) = 1

---------------------------------------------------------------------------
(* Properties of the order book *)

\* C13 as stated: after a successful fetch whose body holds at least
\* 2 * depth levels in total, the snapshot has depth bids and depth asks.
C13_TwiceDepthInTotalFillsBothSides ==
    (obStage = "fetched"
     /\ Len(obBody.bids) + Len(obBody.asks) >= 2 * obProps.depth)
        => Len(bids) = obProps.depth /\ Len(asks) = obProps.depth

\* C13 amended: after a successful fetch whose body holds at least depth
\* bid levels and at least depth ask levels, the snapshot has exactly depth
\* bids and exactly depth asks.
C13_DepthOnEachSideFillsBothSides ==
    (obStage = "fetched"
     /\ Len(obBody.bids) >= obProps.depth
     /\ Len(obBody.asks) >= obProps.depth)
        => Len(bids) = obProps.depth /\ Len(asks) = obProps.depth

C13_Witness ==
    /\ obStage = "fetched"
    /\ obProps.depth = 2
    /\ Len(obBody.bids) = 4
    /\ Len(obBody.asks) = 2
    /\ Len(bids) = 2
    /\ Len(asks) = 2

\* C14: in every stored snapshot bids are strictly descending by price and
\* asks strictly ascending by price.
C14_SidesStrictlyOrderedByPrice ==
    /\ \A i \in 1..(Len(bids) - 1) : lessThan(bids[i + 1].price, bids[i].price)
    /\ \A i \in 1..(Len(asks) - 1) : lessThan(asks[i].price, asks[i + 1].price)

\* the amounts of levels 1..i of a side add up to n
RECURSIVE AmountsAddUpTo(_, _, _)
AmountsAddUpTo(side, i, n) ==
    IF i = 0 THEN n = 0
    ELSE /\ side[i].amount # NaN
         /\ side[i].amount <= n
         /\ AmountsAddUpTo(side, i - 1, n - side[i].amount)

\* C15: on each side the total of a level is the sum of the amounts from the
\* best price up to it, totals never decrease walking outward, and maxTotal
\* is the larger of the two sides' last totals.
C15_TotalsAreRunningSums ==
    /\ \A side \in {asks, bids} :
          /\ \A i \in 1..Len(side) : AmountsAddUpTo(side, i, side[i].total)
          /\ \A i \in 1..(Len(side) - 1) : ~lessThan(side[i + 1].total, side[i].total)
                                            /\ side[i].total # NaN
                                            /\ side[i + 1].total # NaN
    /\ maxTotal # NaN
    /\ maxTotal >= totalOf(asks)
    /\ maxTotal >= totalOf(bids)
    /\ maxTotal \in {totalOf(asks), totalOf(bids)}

---------------------------------------------------------------------------
(* KlineChart: from the klines body, or from generateMockData, to the      *)
(* stored bars.  Instants are milliseconds since the epoch, read in UTC;   *)
(* the model's instants lie in January 1970.                               *)

\* bars of one mock batch (the loop of generateMockData makes 100)
MaxBars == 2

\* one kline of the body: open time, then open, high, low, close, volume as
\* the strings on the wire
WireCandles ==
    {<<0, "7", "12", "7", "12", "7">>,
     <<60000, "12", "12", "7", "7", "7">>,
     <<0, "12", "7", "7", "12", "7">>,
     <<0, "abc", "12", "7", "7", "7">>}

WireKlines == UNION {[1..n -> WireCandles] : n \in 0..MaxBars}

\* a >= b of JavaScript numbers
atLeast(a, b) == a # NaN /\ b # NaN /\ a >= b

\* Date getters
getMonth(ms) == 0
getDate(ms) == (ms \div 86400000) + 1
getHours(ms) == (ms \div 3600000) % 24
getMinutes(ms) == (ms \div 60000) % 60

\* formatDate(date, 'MM-DD HH:mm') of an ISO string
formatDate(iso) ==
    LET ms == iso[2]
    IN <<"MM-DD HH:mm", getMonth(ms) + 1, getDate(ms), getHours(ms), getMinutes(ms)>>

\* fetchKlineData: the members of each kline the panel reads
fetchKlineData(body) ==
    [i \in 1..Len(body) |->
        [time |-> toISOString(body[i][1]),
         open |-> parseFloat(body[i][2]),
         high |-> parseFloat(body[i][3]),
         low |-> parseFloat(body[i][4]),
         close |-> parseFloat(body[i][5]),
         volume |-> parseFloat(body[i][6]),
         isRising |-> atLeast(parseFloat(body[i][5]), parseFloat(body[i][2]))]]

\* fetchData: data.map(item => ({ time: formatDate(item.time, 'MM-DD HH:mm'), ... }))
formattedData(records) ==
    [i \in 1..Len(records) |->
        [time |-> formatDate(records[i].time),
         open |-> records[i].open,
         high |-> records[i].high,
         low |-> records[i].low,
         close |-> records[i].close,
         volume |-> records[i].volume,
         isRising |-> records[i].isRising]]

\* interval.slice(0, -1) parsed, and interval.slice(-1)
intervalValue(interval) == CASE interval = "1h" -> 1 [] interval = "1m" -> 1
intervalUnit(interval) == CASE interval = "1h" -> "h" [] interval = "1m" -> "m"

getIntervalMilliseconds(interval) ==
    CASE intervalUnit(interval) = "m" -> intervalValue(interval) * 60 * 1000
      [] intervalUnit(interval) = "h" -> intervalValue(interval) * 60 * 60 * 1000
      [] intervalUnit(interval) = "d" -> intervalValue(interval) * 24 * 60 * 60 * 1000
      [] intervalUnit(interval) = "w" -> intervalValue(interval) * 7 * 24 * 60 * 60 * 1000
      [] OTHER -> 60 * 1000

formatTime(ms, interval) ==
    CASE intervalUnit(interval) = "m" -> <<"HH:mm", getHours(ms), getMinutes(ms)>>
      [] intervalUnit(interval) = "h" ->
           <<"MM-DD HH:00", getMonth(ms) + 1, getDate(ms), getHours(ms)>>
      [] OTHER -> <<"MM-DD", getMonth(ms) + 1, getDate(ms)>>

\* new Date() when generateMockData runs
Nows == {183600000, 183660000}

\* Math.random() where only the ends of its range are drawn
RandomEnds == {0, 9}

\* the four draws of one loop iteration, in call order, in tenths
BarDraws == [change : RandomTenths, high : RandomEnds, low : RandomEnds,
             volume : RandomEnds]
Tapes == [1..MaxBars -> BarDraws]

\* const volatility = basePrice * 0.02
klineVolatility(symbol) == (basePrice(symbol) * 2) \div 100

\* variant: every bar opens at the base price
mockOpenAtBase(symbol, i, mockData) == basePrice(symbol)

\* const open = i === 0 ? basePrice : mockData[i - 1].close
mockOpen(symbol, i, mockData) ==
    IF i = 0 THEN basePrice(symbol) ELSE mockData[i].close

\* mockData after n iterations of the loop of generateMockData, r[i + 1]
\* being the draws of iteration i
RECURSIVE mockBars(_, _, _, _, _)
mockBars(symbol, interval, now, r, n) ==
    IF n = 0 THEN <<>>
    ELSE LET mockData == mockBars(symbol, interval, now, r, n - 1)
             i == n - 1
             time == now - (MaxBars - 1 - i) * getIntervalMilliseconds(interval)
             volatility == klineVolatility(symbol)
             open == mockOpen(symbol, i, mockData)
             change == ((r[n].change - 5) * volatility) \div 10
             close == open + change
             high == (IF open >= close THEN open ELSE close)
                        + (r[n].high * volatility) \div 20
             low == (IF open <= close THEN open ELSE close)
                        - (r[n].low * volatility) \div 20
             volume == r[n].volume * 10 + 50
         IN Append(mockData,
                   [time |-> formatTime(time, interval),
                    open |-> open, high |-> high, low |-> low, close |-> close,
                    volume |-> volume, isRising |-> close >= open])

\* the effect calls fetchData(): setLoading(true), setError(null), and the
\* client requests the klines
KlineFetchData ==
    /\ kStage = "idle"
    /\ kStage' = "called"
    /\ kLoading' = TRUE
    /\ kError' = NoError
    /\ UNCHANGED <<kProps, kBody, klineData, kTape, kRuns, kFirst>>
    /\ UNCHANGED nonKlineVars

\* the interval armed by the effect calls fetchData() again after a fallback
KlinePoll ==
    /\ kStage = "mocked"
    /\ kRuns < 2
    /\ kStage' = "called"
    /\ kLoading' = TRUE
    /\ kError' = NoError
    /\ UNCHANGED <<kProps, kBody, klineData, kTape, kRuns, kFirst>>
    /\ UNCHANGED nonKlineVars

\* the upstream answers 200 with a klines body
KlineRespond ==
    /\ kStage = "called"
    /\ kStage' = "responded"
    /\ \E body \in WireKlines : kBody' = body
    /\ UNCHANGED <<kProps, klineData, kLoading, kError, kTape, kRuns, kFirst>>
    /\ UNCHANGED nonKlineVars

\* the client call throws (network, status, parse)
KlineFail ==
    /\ kStage = "called"
    /\ kStage' = "failed"
    /\ UNCHANGED <<kProps, kBody, klineData, kLoading, kError, kTape, kRuns, kFirst>>
    /\ UNCHANGED nonKlineVars

\* fetchData after the await: the client maps the body, the panel reformats
\* the time of each record and stores the bars
KlineFetched ==
    /\ kStage = "responded"
    /\ klineData' = formattedData(fetchKlineData(kBody))
    /\ kLoading' = FALSE
    /\ kStage' = "fetched"
    /\ UNCHANGED <<kProps, kBody, kError, kTape, kRuns, kFirst>>
    /\ UNCHANGED nonKlineVars

\* fetchData's catch: setError, setLoading(false), generateMockData() at some
\* instant, Math.random() returning any values or those of the fixed tape
KlineMocked ==
    /\ kStage = "failed"
    /\ \E now \in Nows :
       \E r \in (IF kTape = NoTape THEN Tapes ELSE {kTape}) :
          LET mockData == mockBars(kProps.symbol, kProps.interval, now, r, MaxBars)
          IN /\ klineData' = mockData
             /\ kFirst' = IF kRuns = 0 THEN mockData ELSE kFirst
    /\ kRuns' = kRuns + 1
    /\ kError' = ErrorMessage("KlineChart")
    /\ kLoading' = FALSE
    /\ kStage' = "mocked"
    /\ UNCHANGED <<kProps, kBody, kTape>>
    /\ UNCHANGED nonKlineVars

\* a KlineChart with some symbol and interval, rendered and not yet committed
KlineStart ==
    /\ PanelStart("KlineChart")
    /\ ClientIdle
    /\ BookIdle
    /\ AppIdle
    /\ SynthIdle
    /\ TableIdle
    /\ ChatIdle
    /\ GenIdle
    /\ kProps \in [symbol : Symbols, interval : Intervals]
    /\ kStage = "idle"
    /\ kBody = <<>>
    /\ klineData = <<>>
    /\ kLoading = TRUE
    /\ kError = NoError
    /\ kRuns = 0
    /\ kFirst = <<>>

KlineInit == KlineStart /\ kTape = NoTape

KlineNext ==
    \/ KlineFetchData
    \/ KlineRespond
    \/ KlineFail
    \/ KlineFetched
    \/ KlineMocked

\* one fetch of the candle panel
SpecKline == KlineInit /\ [][KlineNext]_vars

\* the upstream stays unreachable and Math.random() returns the same values
\* in every run of generateMockData
KlineSeededInit == KlineStart /\ kTape \in Tapes

KlineSeededNext ==
    \/ KlineFetchData
    \/ KlinePoll
    \/ KlineFail
    \/ KlineMocked

SpecKlineSeeded == KlineSeededInit /\ [][KlineSeededNext]_vars

---------------------------------------------------------------------------
(* Properties of the candle panel *)

\* C16: after a successful fetch every stored bar has high >= max(open,
\* close) and low <= min(open, close).
C16_FetchedBarsAreConsistent ==
    kStage = "fetched"
        => \A i \in 1..Len(klineData) :
              /\ atLeast(klineData[i].high, klineData[i].open)
              /\ atLeast(klineData[i].high, klineData[i].close)
              /\ atLeast(klineData[i].open, klineData[i].low)
              /\ atLeast(klineData[i].close, klineData[i].low)

\* C17: in a synthetic batch the first bar opens at the symbol's base price
\* and every later bar opens at the close of the bar before it.
C17_MockBarsChain ==
    kStage = "mocked"
        => /\ klineData[1].open = basePrice(kProps.symbol)
           /\ \A i \in 2..Len(klineData) : klineData[i].open = klineData[i - 1].close

C17_Witness ==
    /\ kStage = "mocked"
    /\ Len(klineData) >= 2
    /\ klineData[1].close # klineData[1].open
    /\ klineData[2].open = klineData[1].close
    /\ klineData[2].open # basePrice(kProps.symbol)

\* C18: two runs of the fallback synthesis with the same symbol, the same
\* interval and the same random draws store the same dataset.
C18_SameDrawsSameDataset ==
    (kStage = "mocked" /\ kRuns = 2) => klineData = kFirst

---------------------------------------------------------------------------
(* App: the panels of the grid side by side.  Each panel has its own       *)
(* useState cells and its own interval; App hands every panel the selected *)
(* symbol.                                                                 *)

\* client calls of one panel pending at the same time
MaxPending == 1

\* the effect of panel p: fetchData() and setInterval(fetchData, period)
AppEffect(st, p, symbol) ==
    [st EXCEPT !.loading = TRUE, !.error = NoError, !.pending = @ + 1,
               !.timer = [symbol |-> symbol,
                          period |-> InitialProps(p).refreshInterval]]

\* the first effect of panel p
AppMount(p) ==
    /\ app[p].timer = NoTimer
    /\ app[p].pending < MaxPending
    /\ app' = [app EXCEPT ![p] = AppEffect(@, p, appSymbol)]
    /\ appLast' = [panel |-> p, kind |-> "mount"]
    /\ UNCHANGED appSymbol
    /\ UNCHANGED nonAppVars

\* the interval of panel p fires: fetchData()
AppTimerFire(p) ==
    /\ app[p].timer # NoTimer
    /\ app[p].pending < MaxPending
    /\ app' = [app EXCEPT ![p].loading = TRUE, ![p].error = NoError,
                          ![p].pending = @ + 1]
    /\ appLast' = [panel |-> p, kind |-> "timer"]
    /\ UNCHANGED appSymbol
    /\ UNCHANGED nonAppVars

\* a client call of panel p fulfils
AppResolve(p) ==
    /\ app[p].pending > 0
    /\ app' = [app EXCEPT ![p].data = "real", ![p].loading = FALSE,
                          ![p].pending = @ - 1]
    /\ appLast' = [panel |-> p, kind |-> "resolved"]
    /\ UNCHANGED appSymbol
    /\ UNCHANGED nonAppVars

\* variant: the error is kept in one cell that all panels render
AppRejectShared(p) ==
    /\ app[p].pending > 0
    /\ app' = [q \in Panels |->
                 IF q = p
                 THEN [app[q] EXCEPT !.data = "mock", !.loading = FALSE,
                                     !.error = ErrorMessage(p), !.pending = @ - 1]
                 ELSE [app[q] EXCEPT !.error = ErrorMessage(p)]]
    /\ appLast' = [panel |-> p, kind |-> "rejected"]
    /\ UNCHANGED appSymbol
    /\ UNCHANGED nonAppVars

\* a client call of panel p rejects: setError, generateMockData()
AppReject(p) ==
    /\ app[p].pending > 0
    /\ app' = [app EXCEPT ![p].data = "mock", ![p].loading = FALSE,
                          ![p].error = ErrorMessage(p), ![p].pending = @ - 1]
    /\ appLast' = [panel |-> p, kind |-> "rejected"]
    /\ UNCHANGED appSymbol
    /\ UNCHANGED nonAppVars

\* the user selects another symbol: App re-renders, the effect of every
\* mounted panel is cleaned up and runs again
AppSelectSymbol(symbol) ==
    /\ symbol # appSymbol
    /\ \A p \in Panels : app[p].timer # NoTimer => app[p].pending < MaxPending
    /\ appSymbol' = symbol
    /\ app' = [p \in Panels |->
                 IF app[p].timer # NoTimer THEN AppEffect(app[p], p, symbol)
                 ELSE app[p]]
    /\ appLast' = [panel |-> "App", kind |-> "symbol"]
    /\ UNCHANGED nonAppVars

AppInit ==
    /\ PanelStart("PriceChange")
    /\ ClientIdle
    /\ BookIdle
    /\ KlineIdle
    /\ AppIdle
    /\ SynthIdle
    /\ TableIdle
    /\ ChatIdle
    /\ GenIdle

AppNext ==
    \/ \E p \in Panels : AppMount(p)
    \/ \E p \in Panels : AppTimerFire(p)
    \/ \E p \in Panels : AppResolve(p)
    \/ \E p \in Panels : AppReject(p)
    \/ \E symbol \in Symbols : AppSelectSymbol(symbol)

SpecApp == AppInit /\ [][AppNext]_vars

\* C20: an event of one panel (mount, timer fire, success, failure with its
\* fallback) leaves the data, loading, error, pending calls and interval of
\* every other panel unchanged.
C20_PanelEventLeavesSiblingsAlone ==
    [][\A q \in Panels :
          (appLast'.panel \in Panels /\ appLast'.panel # q) => app'[q] = app[q]]_vars

C20_Witness ==
    /\ appLast = [panel |-> "PriceChange", kind |-> "rejected"]
    /\ app["PriceChange"].error = ErrorMessage("PriceChange")
    /\ app["PriceChange"].data = "mock"
    /\ \A q \in Panels \ {"PriceChange"} :
          /\ app[q].data = "real"
          /\ app[q].error = NoError
          /\ app[q].loading = FALSE
          /\ app[q].timer # NoTimer

---------------------------------------------------------------------------
(* TradeVolume, FundingRate, VolumePulse, LiquidationPoints: the panels    *)
(* whose fetch function has no await.  The function runs to its end inside *)
(* the call: setLoading(true), setError(null), the dataset is built from   *)
(* Math.random(), stored, setLoading(false).                               *)

SynthPanels == {"TradeVolume", "FundingRate", "VolumePulse", "LiquidationPoints"}

\* the panels whose effect arms an interval
SynthPolling == {"TradeVolume", "FundingRate"}

SynthPropValues(p) ==
    [symbol : Symbols,
     height : {0},
     interval : IF p = "VolumePulse" THEN Intervals ELSE {"-"},
     depth : {0},
     refreshInterval : CASE p = "TradeVolume" -> {5000, 2500}
                         [] p = "FundingRate" -> {60000, 30000}
                         [] OTHER -> {0}]

\* the props App passes on first render
SynthInitialProps(p) ==
    [symbol |-> "BTCUSDT",
     height |-> 0,
     interval |-> IF p = "VolumePulse" THEN "1h" ELSE "-",
     depth |-> 0,
     refreshInterval |-> CASE p = "TradeVolume" -> 5000
                           [] p = "FundingRate" -> 60000
                           [] OTHER -> 0]

\* the dependency array of the panel's useEffect
SynthDeps(p) ==
    CASE p = "TradeVolume" -> {"symbol", "refreshInterval"}
      [] p = "FundingRate" -> {"symbol", "refreshInterval"}
      [] p = "VolumePulse" -> {"symbol", "interval"}
      [] p = "LiquidationPoints" -> {"symbol"}

\* one run of fetchVolumeData / fetchFundingRateData / fetchLiquidationData
\* with the props of closure, r standing for the values Math.random() returns
SynthFetch(closure, r) ==
    /\ sData' = [src |-> "synthetic", closure |-> closure, run |-> sRuns, draw |-> r]
    /\ sLoading' = FALSE
    /\ sError' = NoError
    /\ sRuns' = sRuns + 1
    /\ UNCHANGED sCalls

\* the body of the effect: the fetch function, then setInterval where the
\* panel has one
SynthEffect(closure, r) ==
    /\ SynthFetch(closure, r)
    /\ sTimer' = IF sPanel \in SynthPolling THEN closure ELSE NoProps

SynthMount ==
    /\ sPhase = "mounting"
    /\ sRuns < MaxFetches
    /\ sPhase' = "active"
    /\ \E r \in RandomTenths : SynthEffect(sProps, r)
    /\ sLast' = "mount"
    /\ UNCHANGED <<sPanel, sProps>>
    /\ UNCHANGED nonSynthVars

\* the parent re-renders the panel with new props; when a dependency changed
\* the cleanup clears the interval and the effect runs again
SynthSetProps(new) ==
    /\ sPhase = "active"
    /\ new # sProps
    /\ sProps' = new
    /\ IF \E d \in SynthDeps(sPanel) : sProps[d] # new[d]
       THEN /\ sRuns < MaxFetches
            /\ \E r \in RandomTenths : SynthEffect(new, r)
            /\ sLast' = "identity"
       ELSE /\ sLast' = "render"
            /\ UNCHANGED <<sData, sLoading, sError, sTimer, sRuns, sCalls>>
    /\ UNCHANGED <<sPanel, sPhase>>
    /\ UNCHANGED nonSynthVars

\* the live interval fires
SynthTimerFire ==
    /\ sTimer # NoProps
    /\ sRuns < MaxFetches
    /\ \E r \in RandomTenths : SynthFetch(sTimer, r)
    /\ sLast' = "timer"
    /\ UNCHANGED <<sPanel, sPhase, sProps, sTimer>>
    /\ UNCHANGED nonSynthVars

SynthUnmount ==
    /\ sPhase = "active"
    /\ sPhase' = "unmounted"
    /\ sTimer' = NoProps
    /\ sLast' = "unmount"
    /\ UNCHANGED <<sPanel, sProps, sData, sLoading, sError, sRuns, sCalls>>
    /\ UNCHANGED nonSynthVars

SynthInit ==
    /\ PanelStart("PriceChange")
    /\ ClientIdle
    /\ BookIdle
    /\ KlineIdle
    /\ AppIdle
    /\ TableIdle
    /\ ChatIdle
    /\ GenIdle
    /\ sPanel \in SynthPanels
    /\ sPhase = "mounting"
    /\ sProps = SynthInitialProps(sPanel)
    /\ sData = NoSynthData
    /\ sLoading = TRUE
    /\ sError = NoError
    /\ sTimer = NoProps
    /\ sRuns = 0
    /\ sCalls = 0
    /\ sLast = "init"

SynthNext ==
    \/ SynthMount
    \/ \E new \in SynthPropValues(sPanel) : SynthSetProps(new)
    \/ SynthTimerFire
    \/ SynthUnmount

SpecSynth == SynthInit /\ [][SynthNext]_vars

\* C21: a panel has called the API client once for its mount and once more
\* for every fire of its refresh timer, and what it stores after such a step
\* is the client's result.
C21_MountAndTimerCallTheClient ==
    sLast \in {"mount", "timer"}
        => /\ sCalls >= 1
           /\ sData.src = "real"

---------------------------------------------------------------------------
(* The base price of the generators: let basePrice = 50000, the if chain   *)
(* on the symbol, then the first read of basePrice.                        *)

\* the symbols App offers
AppSymbols == {"BTCUSDT", "ETHUSDT", "BNBUSDT", "SOLUSDT", "ADAUSDT", "DOGEUSDT",
               "XRPUSDT", "DOTUSDT", "AVAXUSDT", "MATICUSDT"}

\* the panels whose generator starts from a base price
PricePanels == {"KlineChart", "PriceChange", "OrderBook", "LiquidationPoints"}

\* let basePrice = 50000
InitialBasePrice == 50000

\* the if chain of KlineChart's generateMockData
klineBasePrice(symbol) ==
    CASE symbol = "BTCUSDT" -> 50000
      [] symbol = "ETHUSDT" -> 3000
      [] symbol = "BNBUSDT" -> 500
      [] OTHER -> 100

\* the if chain of PriceChange's generateMockData
priceChangeBasePrice(symbol) ==
    CASE symbol = "BTCUSDT" -> 50000
      [] symbol = "ETHUSDT" -> 3000
      [] symbol = "BNBUSDT" -> 500
      [] OTHER -> 100

\* variant: the chain has no final else, the initial value stays
liquidationBasePriceNoElse(symbol) ==
    CASE symbol = "BTCUSDT" -> 50000
      [] symbol = "ETHUSDT" -> 3000
      [] symbol = "BNBUSDT" -> 500
      [] OTHER -> InitialBasePrice

\* the if chain of fetchLiquidationData
liquidationBasePrice(symbol) ==
    CASE symbol = "BTCUSDT" -> 50000
      [] symbol = "ETHUSDT" -> 3000
      [] symbol = "BNBUSDT" -> 500
      [] OTHER -> 100

\* the if chain of panel p (basePrice is OrderBook's)
ifChain(p, symbol) ==
    CASE p = "KlineChart" -> klineBasePrice(symbol)
      [] p = "PriceChange" -> priceChangeBasePrice(symbol)
      [] p = "OrderBook" -> basePrice(symbol)
      [] p = "LiquidationPoints" -> liquidationBasePrice(symbol)

TableDeclare ==
    /\ tStage = "start"
    /\ tStage' = "declared"
    /\ tBasePrice' = InitialBasePrice
    /\ UNCHANGED <<tPanel, tSymbol, tRead>>
    /\ UNCHANGED nonTableVars

TableResolve ==
    /\ tStage = "declared"
    /\ tStage' = "resolved"
    /\ tBasePrice' = ifChain(tPanel, tSymbol)
    /\ UNCHANGED <<tPanel, tSymbol, tRead>>
    /\ UNCHANGED nonTableVars

\* const volatility = basePrice * ...
TableRead ==
    /\ tStage = "resolved"
    /\ tStage' = "used"
    /\ tRead' = tBasePrice
    /\ UNCHANGED <<tPanel, tSymbol, tBasePrice>>
    /\ UNCHANGED nonTableVars

TableInit ==
    /\ PanelStart("PriceChange")
    /\ ClientIdle
    /\ BookIdle
    /\ KlineIdle
    /\ AppIdle
    /\ SynthIdle
    /\ ChatIdle
    /\ GenIdle
    /\ tPanel \in PricePanels
    /\ tSymbol \in AppSymbols
    /\ tStage = "start"
    /\ tBasePrice = 0
    /\ tRead = 0

TableNext ==
    \/ TableDeclare
    \/ TableResolve
    \/ TableRead

SpecTable == TableInit /\ [][TableNext]_vars

\* C23: in each of the four panels the base price the generator works with
\* is 50000 for BTCUSDT, 3000 for ETHUSDT, 500 for BNBUSDT and 100 for any
\* other symbol, so the 50000 of the declaration is read for no symbol but
\* BTCUSDT, to which the chain assigns it.
C23_SameFixedTableEverywhere ==
    tStage = "used"
        => tRead = (CASE tSymbol = "BTCUSDT" -> 50000
                      [] tSymbol = "ETHUSDT" -> 3000
                      [] tSymbol = "BNBUSDT" -> 500
                      [] OTHER -> 100)

C23_Witness ==
    /\ tStage = "used"
    /\ tPanel = "LiquidationPoints"
    /\ tSymbol = "SOLUSDT"
    /\ tRead = 100

---------------------------------------------------------------------------
(* AskMeAnything: the chat widget.  A string is the sequence of its        *)
(* characters.                                                             *)

\* accepted sends of one behaviour
MaxSends == 2

\* what the user types in the behaviours that go on for several rounds
Inputs ==
    {<<>>, <<" ">>, <<" ", " ">>, <<"P", "r", "i", "c", "e", "?">>,
     <<" ", "t", "r", "e", "n", "d", " ">>, <<"h", "e", "l", "l", "o">>}

\* the questions put to the reply generator
Questions ==
    {<<"P", "r", "i", "c", "e", "?">>,
     <<"h", "o", "w", " ", "m", "u", "c", "h">>,
     <<"H", "o", "w", " ", "M", "u", "c", "h">>, <<"T", "r", "e", "n", "d">>,
     <<"m", "o", "v", "e", "m", "e", "n", "t">>,
     <<"V", "O", "L", "U", "M", "E">>,
     <<"t", "r", "a", "d", "i", "n", "g", " ", "v", "o", "l", "u", "m", "e">>,
     <<"a", "d", "v", "i", "c", "e">>,
     <<"S", "h", "o", "u", "l", "d", " ", "I", " ", "b", "u", "y">>,
     <<"h", "e", "l", "l", "o">>,
     <<"h", "o", "w", " ", " ", "m", "u", "c", "h">>,
     <<"p", "r", "i", "c", "e", " ", "t", "r", "e", "n", "d">>,
     <<"M", "o", "v", "e", "m", "e", "n", "t", " ", "v", "o", "l", "u", "m", "e">>,
     <<"v", "o", "l", "u", "m", "e", " ", "a", "d", "v", "i", "c", "e">>,
     <<"s", "h", "o", "u", "l", "d", " ", "i", "t">>,
     <<"p", "r", "i", "c", "e", "y">>}

\* String.prototype.toLowerCase, on the letters that occur
toLowerChar(c) ==
    CASE c = "E" -> "e"
      [] c = "H" -> "h"
      [] c = "I" -> "i"
      [] c = "L" -> "l"
      [] c = "M" -> "m"
      [] c = "O" -> "o"
      [] c = "P" -> "p"
      [] c = "S" -> "s"
      [] c = "T" -> "t"
      [] c = "U" -> "u"
      [] c = "V" -> "v"
      [] OTHER -> c
toLowerCase(str) == [i \in 1..Len(str) |-> toLowerChar(str[i])]

\* String.prototype.includes
includes(str, k) ==
    \E i \in 1..(Len(str) - Len(k) + 1) : SubSeq(str, i, i + Len(k) - 1) = k

\* String.prototype.trim
RECURSIVE trimStart(_)
trimStart(str) ==
    IF str # <<>> /\ Head(str) = " " THEN trimStart(Tail(str)) ELSE str
RECURSIVE trimEnd(_)
trimEnd(str) ==
    IF str # <<>> /\ str[Len(str)] = " "
    THEN trimEnd(SubSeq(str, 1, Len(str) - 1)) ELSE str
\* variant: the input is taken as typed
trimNothing(str) ==
    str
trim(str) ==
    trimEnd(trimStart(str))

\* the keywords of generateAIResponse
kwPrice == <<"p", "r", "i", "c", "e">>
kwHowMuch == <<"h", "o", "w", " ", "m", "u", "c", "h">>
kwTrend == <<"t", "r", "e", "n", "d">>
kwMovement == <<"m", "o", "v", "e", "m", "e", "n", "t">>
kwVolume == <<"v", "o", "l", "u", "m", "e">>
kwTradingVolume == <<"t", "r", "a", "d", "i", "n", "g", " ", "v", "o", "l", "u", "m", "e">>
kwAdvice == <<"a", "d", "v", "i", "c", "e">>
kwShouldI == <<"s", "h", "o", "u", "l", "d", " ", "i">>

\* a template filled with the symbol and the values of Math.random()
Template(name, symbol, r) == [template |-> name, symbol |-> symbol, draw |-> r]

\* variant: the keywords are looked for in the question as typed
generateAIResponseCaseSensitive(question, symbol, r) ==
    IF includes(question, kwPrice) \/ includes(question, kwHowMuch)
    THEN Template("price", symbol, r)
    ELSE IF includes(question, kwTrend) \/ includes(question, kwMovement)
    THEN Template("trend", symbol, r)
    ELSE IF includes(question, kwVolume) \/ includes(question, kwTradingVolume)
    THEN Template("volume", symbol, r)
    ELSE IF includes(question, kwAdvice) \/ includes(question, kwShouldI)
    THEN Template("advice", "-", -1)
    ELSE Template("default", symbol, r)

\* generateAIResponse, r standing for the values Math.random() returns
generateAIResponse(question, symbol, r) ==
    LET lowerQuestion == toLowerCase(question)
    IN IF includes(lowerQuestion, kwPrice) \/ includes(lowerQuestion, kwHowMuch)
       THEN Template("price", symbol, r)
       ELSE IF includes(lowerQuestion, kwTrend) \/ includes(lowerQuestion, kwMovement)
       THEN Template("trend", symbol, r)
       ELSE IF includes(lowerQuestion, kwVolume)
               \/ includes(lowerQuestion, kwTradingVolume)
       THEN Template("volume", symbol, r)
       ELSE IF includes(lowerQuestion, kwAdvice) \/ includes(lowerQuestion, kwShouldI)
       THEN Template("advice", "-", -1)
       ELSE Template("default", symbol, r)

\* the trading pairs the widget is shown for
ChatSymbols == {"BTCUSDT", "SOLUSDT"}

\* one entry of the message list; the text of a user message is what was typed
Message(id, text, isUser, timestamp) ==
    [id |-> id, text |-> text, isUser |-> isUser, timestamp |-> timestamp]

\* the input field's onChange; the field is disabled while loading
ChatType(text) ==
    /\ ~chatLoading
    /\ Len(messages) < 1 + 2 * MaxSends
    /\ text # input
    /\ input' = text
    /\ chatLast' = "type"
    /\ UNCHANGED <<messages, chatLoading, chatPending, chatSymbol, chatClock>>
    /\ UNCHANGED nonChatVars

\* handleSendMessage as the Enter key and the send button reach it: both
\* controls are disabled while loading
ChatSend ==
    /\ ~chatLoading
    /\ chatLast # "ignored"
    /\ IF trim(input) = <<>>
       THEN /\ chatLast' = "ignored"
            /\ UNCHANGED <<messages, input, chatLoading, chatPending,
                           chatSymbol, chatClock>>
       ELSE /\ Len(messages) < 1 + 2 * MaxSends
            /\ messages' = Append(messages,
                   Message(Len(messages) + 1, [typed |-> input], TRUE, chatClock))
            /\ input' = <<>>
            /\ chatLoading' = TRUE
            /\ chatPending' = chatPending \cup
                   {[len |-> Len(messages), input |-> input, symbol |-> chatSymbol]}
            /\ chatClock' = chatClock + 1
            /\ chatLast' = "send"
            /\ UNCHANGED chatSymbol
    /\ UNCHANGED nonChatVars

\* variant: the reply takes the id the user message already has
ChatDeliverSameId(t, r) ==
    /\ t \in chatPending
    /\ messages' = Append(messages,
           Message(t.len + 1, generateAIResponse(t.input, t.symbol, r),
                   FALSE, chatClock))
    /\ chatLoading' = FALSE
    /\ chatPending' = chatPending \ {t}
    /\ chatClock' = chatClock + 1
    /\ chatLast' = "deliver"
    /\ UNCHANGED <<input, chatSymbol>>
    /\ UNCHANGED nonChatVars

\* the callback of setTimeout(..., 1000), with the state its closure captured
ChatDeliver(t, r) ==
    /\ t \in chatPending
    /\ messages' = Append(messages,
           Message(t.len + 2, generateAIResponse(t.input, t.symbol, r),
                   FALSE, chatClock))
    /\ chatLoading' = FALSE
    /\ chatPending' = chatPending \ {t}
    /\ chatClock' = chatClock + 1
    /\ chatLast' = "deliver"
    /\ UNCHANGED <<input, chatSymbol>>
    /\ UNCHANGED nonChatVars

\* the parent renders the widget with another symbol
ChatSetSymbol(symbol) ==
    /\ symbol # chatSymbol
    /\ Len(messages) < 1 + 2 * MaxSends
    /\ chatSymbol' = symbol
    /\ chatLast' = "symbol"
    /\ UNCHANGED <<messages, input, chatLoading, chatPending, chatClock>>
    /\ UNCHANGED nonChatVars

ChatInit ==
    /\ PanelStart("PriceChange")
    /\ ClientIdle
    /\ BookIdle
    /\ KlineIdle
    /\ AppIdle
    /\ SynthIdle
    /\ TableIdle
    /\ ChatIdle
    /\ GenIdle

ChatDelivery == \E t \in chatPending : \E r \in RandomEnds : ChatDeliver(t, r)

ChatNext ==
    \/ \E text \in Inputs : ChatType(text)
    \/ ChatSend
    \/ ChatDelivery
    \/ \E symbol \in ChatSymbols : ChatSetSymbol(symbol)

SpecChat == ChatInit /\ [][ChatNext]_vars

\* the timer of setTimeout fires: a pending reply is delivered
SpecChatFair == SpecChat /\ WF_vars(ChatDelivery)

\* one question, typed before the behaviour starts, and its reply
ChatOnceInit ==
    /\ PanelStart("PriceChange")
    /\ ClientIdle
    /\ BookIdle
    /\ KlineIdle
    /\ AppIdle
    /\ SynthIdle
    /\ TableIdle
    /\ GenIdle
    /\ \E symbol \in ChatSymbols :
          /\ messages = <<Greeting(symbol)>>
          /\ chatSymbol = symbol
    /\ input \in Questions
    /\ chatLoading = FALSE
    /\ chatPending = {}
    /\ chatClock = 1
    /\ chatLast = "init"

ChatOnceNext ==
    \/ ChatSend
    \/ ChatDelivery

SpecChatOnce == ChatOnceInit /\ [][ChatOnceNext]_vars

\* the replies in the list, each with the question asked just before it
Replies == {i \in 2..Len(messages) : ~messages[i].isUser}
asked(i) == toLowerCase(messages[i - 1].text.typed)
asksPrice(i) == includes(asked(i), kwPrice) \/ includes(asked(i), kwHowMuch)
asksTrend(i) == includes(asked(i), kwTrend) \/ includes(asked(i), kwMovement)
asksVolume(i) == includes(asked(i), kwVolume)
asksAdvice(i) == includes(asked(i), kwAdvice) \/ includes(asked(i), kwShouldI)

\* C24: the reply to a question is chosen by the first keyword group, in the
\* order price, trend, volume, advice, that the lower-cased question contains,
\* the default reply being given when it contains none; every reply is
\* exactly one of the five templates.
C24_FirstKeywordGroupChoosesTheReply ==
    \A i \in Replies :
        LET reply == messages[i].text.template
        IN /\ reply \in {"price", "trend", "volume", "advice", "default"}
           /\ reply = "price" <=> asksPrice(i)
           /\ reply = "trend" <=> ~asksPrice(i) /\ asksTrend(i)
           /\ reply = "volume" <=> ~asksPrice(i) /\ ~asksTrend(i) /\ asksVolume(i)
           /\ reply = "advice" <=>
                  ~asksPrice(i) /\ ~asksTrend(i) /\ ~asksVolume(i) /\ asksAdvice(i)
           /\ reply = "default" <=>
                  ~asksPrice(i) /\ ~asksTrend(i) /\ ~asksVolume(i) /\ ~asksAdvice(i)

\* a question in capitals that names two groups got the reply of the earlier
C24_Witness ==
    \E i \in Replies :
        /\ messages[i - 1].text.typed = <<"M", "o", "v", "e", "m", "e", "n", "t", " ", "v", "o", "l", "u", "m", "e">>
        /\ messages[i].text.template = "trend"

\* C27: the ids of the message list are pairwise distinct and strictly
\* increasing in list order: the greeting has id 1 and each sent message and
\* its reply take the next two ids.
C27_IdsIncreaseByOne ==
    /\ messages[1].id = 1
    /\ \A i \in 2..Len(messages) : messages[i].id = messages[i - 1].id + 1
    /\ \A i, j \in 1..Len(messages) : i < j => messages[i].id < messages[j].id

\* two rounds of question and reply are in the list
C27_Witness ==
    /\ Len(messages) = 5
    /\ messages[4].isUser
    /\ messages[4].id = 4
    /\ ~messages[5].isUser
    /\ messages[5].id = 5

\* empty, or nothing but spaces
Blank(str) == \A i \in 1..Len(str) : str[i] = " "

\* a step of handleSendMessage, as opposed to typing or a new symbol
SendStep == chatLast' \in {"ignored", "send"}

\* a send with blank input changes nothing
BlankSendChangesNothing ==
    SendStep /\ Blank(input) =>
        UNCHANGED <<messages, input, chatLoading, chatPending>>

\* an accepted send appends one user message and sets loading
SendAppendsTheQuestion ==
    SendStep /\ ~Blank(input) =>
        /\ Len(messages') = Len(messages) + 1
        /\ SubSeq(messages', 1, Len(messages)) = messages
        /\ messages'[Len(messages')].isUser
        /\ messages'[Len(messages')].text = [typed |-> input]
        /\ chatLoading'

\* loading is cleared by appending one assistant message after the question
ReplyClearsLoading ==
    chatLoading /\ ~chatLoading' =>
        /\ Len(messages') = Len(messages) + 1
        /\ SubSeq(messages', 1, Len(messages)) = messages
        /\ messages[Len(messages)].isUser
        /\ ~messages'[Len(messages')].isUser

\* assistant, user, assistant, ... from the greeting on
Alternates == \A i \in 1..Len(messages) : messages[i].isUser <=> i % 2 = 0

\* loading exactly while a reply is pending
LoadingIffPending ==
    /\ chatLoading <=> chatPending # {}
    /\ chatLoading <=> messages[Len(messages)].isUser

\* C28: a send with empty or whitespace-only input changes nothing; an
\* accepted send appends exactly one user message and sets loading, and is
\* eventually followed by exactly one assistant message directly after it,
\* with which loading is cleared; the list alternates assistant, user,
\* assistant, ... from the greeting on, and loading is true exactly while a
\* reply is pending.
C28_EverySendGetsItsReply ==
    /\ [](Alternates /\ LoadingIffPending)
    /\ [][BlankSendChangesNothing /\ SendAppendsTheQuestion
          /\ ReplyClearsLoading]_vars
    /\ \A n \in 1..(2 * MaxSends) :
          (chatLoading /\ Len(messages) = n)
              ~> (~chatLoading /\ Len(messages) = n + 1
                  /\ ~messages[n + 1].isUser)

\* a reply has arrived and a blank send after it was ignored
C28_Witness ==
    /\ chatLast = "ignored"
    /\ Len(messages) = 3
    /\ input = <<" ">>
    /\ ~chatLoading

---------------------------------------------------------------------------
(* The interval timer of a polling panel, over mounts, identity changes    *)
(* and unmounts.                                                           *)

\* an interval is created by this step
CreatesTimer == timers' \ timers # {}

\* C25: after any sequence of mount, identity change and unmount a polling
\* panel has at most one live interval timer, that timer was created for the
\* panel's current identity, and after unmount there is none; the timer of the
\* previous identity is cleared before the timer of the new one is created.
C25_OneTimerForTheCurrentIdentity ==
    /\ [](Cardinality(timers) <= 1)
    /\ [](\A t \in timers : ~Stale(t.closure) /\ t.tid = intervalId)
    /\ [](phase = "unmounted" => timers = {})
    /\ [][CreatesTimer => timers' \cap timers = {}]_vars

\* the identity changed and the one live timer is the new effect's
C25_Witness ==
    /\ last.kind = "identity"
    /\ \E t \in timers :
          /\ timers = {t}
          /\ t.closure = props
          /\ t.tid = intervalId
          /\ t.tid > 0

\* C26: whenever the fetch that completed last succeeded, the panel's error is
\* null and the stored dataset is the real data of that fetch, whatever the
\* order in which overlapping fetches started by the timer complete.
C26_LastSuccessLeavesRealDataAndNoError ==
    last.kind = "resolved" /\ phase # "unmounted" =>
        /\ error = NoError
        /\ data = [src |-> "real", closure |-> last.closure, fid |-> last.fid]

---------------------------------------------------------------------------
(* generateMockData of KlineChart, one loop iteration at a time.  The loop *)
(* reads mockData only through its last element, so the state keeps the    *)
(* length of mockData and the bar pushed last.                             *)

\* for (let i = 0; i < 100; i++)
BatchSize == 100

\* the closures generateMockData is entered with
GenSymbols == {"BTCUSDT"}
GenNows == {183600000}

\* the draws of one iteration: every change, with no wicks and with long wicks
GenDraws == {r \in BarDraws : r.low = r.high /\ r.volume = r.high}

\* const change = (Math.random() - 0.5) * volatility
mockChange(r, volatility) == ((r - 5) * volatility) \div 10

\* variant: the wick starts at the open
mockHighAboveOpen(open, close, r, volatility) ==
    open + (r * volatility) \div 20

\* const high = Math.max(open, close) + Math.random() * volatility * 0.5
mockHigh(open, close, r, volatility) ==
    (IF open >= close THEN open ELSE close) + (r * volatility) \div 20

\* const low = Math.min(open, close) - Math.random() * volatility * 0.5
mockLow(open, close, r, volatility) ==
    (IF open <= close THEN open ELSE close) - (r * volatility) \div 20

\* the object pushed by iteration i, r being the draws of the iteration
mockBar(symbol, interval, now, i, pushed, r) ==
    LET time == now - (BatchSize - 1 - i) * getIntervalMilliseconds(interval)
        volatility == klineVolatility(symbol)
        open == mockOpen(symbol, i, [k \in {i} |-> pushed])
        close == open + mockChange(r.change, volatility)
    IN [time |-> formatTime(time, interval),
        open |-> open,
        high |-> mockHigh(open, close, r.high, volatility),
        low |-> mockLow(open, close, r.low, volatility),
        close |-> close,
        volume |-> r.volume * 10 + 50,
        isRising |-> close >= open]

\* const mockData = []; now; basePrice; the loop is entered with i = 0
GenEnter ==
    /\ gStage = "enter"
    /\ gStage' = "loop"
    /\ gI' = 0
    /\ gLength' = 0
    /\ UNCHANGED <<gSymbol, gInterval, gNow, gLast, gShown>>
    /\ UNCHANGED nonGenVars

\* one iteration of the loop body, and i++
GenIterate ==
    /\ gStage = "loop"
    /\ gI < BatchSize
    /\ \E r \in GenDraws :
          gLast' = mockBar(gSymbol, gInterval, gNow, gI, gLast, r)
    /\ gLength' = gLength + 1
    /\ gI' = gI + 1
    /\ UNCHANGED <<gSymbol, gInterval, gNow, gStage, gShown>>
    /\ UNCHANGED nonGenVars

\* the loop condition fails: setKlineData(mockData)
GenStore ==
    /\ gStage = "loop"
    /\ ~(gI < BatchSize)
    /\ gStage' = "stored"
    /\ gShown' = gLength
    /\ UNCHANGED <<gSymbol, gInterval, gNow, gI, gLength, gLast>>
    /\ UNCHANGED nonGenVars

GenInit ==
    /\ PanelStart("PriceChange")
    /\ ClientIdle
    /\ BookIdle
    /\ KlineIdle
    /\ AppIdle
    /\ SynthIdle
    /\ TableIdle
    /\ ChatIdle
    /\ gSymbol \in GenSymbols
    /\ gInterval = "1m"
    /\ gNow \in GenNows
    /\ gStage = "enter"
    /\ gI = 0
    /\ gLength = 0
    /\ gLast = NoBar
    /\ gShown = -1

GenNext ==
    \/ GenEnter
    \/ GenIterate
    \/ GenStore

SpecGen == GenInit /\ [][GenNext]_vars

\* the base price of the symbol, as the claims state it
tableBasePrice(symbol) ==
    CASE symbol = "BTCUSDT" -> 50000
      [] symbol = "ETHUSDT" -> 3000
      [] symbol = "BNBUSDT" -> 500
      [] OTHER -> 100

\* C29: every synthetic candle batch has exactly 100 bars, and every bar has
\* high >= max(open, close), low <= min(open, close), |close - open| at most
\* 1% of the symbol's base price, and isRising = (close >= open).
C29_BatchOfHundredConsistentBars ==
    /\ gStage = "stored" => gShown = 100
    /\ gLength > 0 =>
          /\ gLast.high >= gLast.open /\ gLast.high >= gLast.close
          /\ gLast.low <= gLast.open /\ gLast.low <= gLast.close
          /\ 100 * (gLast.close - gLast.open) <= tableBasePrice(gSymbol)
          /\ 100 * (gLast.open - gLast.close) <= tableBasePrice(gSymbol)
          /\ gLast.isRising <=> gLast.close >= gLast.open

\* a batch was stored whose last bar rose by 0.8% and has no upper wick
C29_Witness ==
    /\ gStage = "stored"
    /\ gShown = BatchSize
    /\ gLast.close = gLast.open + 400
    /\ gLast.high = gLast.close
    /\ gLast.isRising

---------------------------------------------------------------------------
(* The colours of a bar in the two charts of KlineChart                    *)

Green == "#26a69a"
Red == "#ef5350"

\* CandlestickBar: isRising = close > open; color = isRising ? green : red
CandlestickBar(open, close) == IF lessThan(open, close) THEN Green ELSE Red

\* the shape of the volume Bar: fill = payload.isRising ? green : red
volumeBar(payload) == IF payload.isRising THEN Green ELSE Red

\* the charts are rendered: neither the spinner nor the error is returned
ChartsRendered == ~kLoading /\ kError = NoError

\* C30: every candle shown has the same rising / falling colour in the candle
\* chart and in the volume chart, bars whose close equals their open included.
C30_BodyAndVolumeColoursAgree ==
    ChartsRendered =>
        \A i \in 1..Len(klineData) :
            CandlestickBar(klineData[i].open, klineData[i].close)
                = volumeBar(klineData[i])

=============================================================================
